---- MODULE Spec2Model ----
(***************************************************************************)
(* A model of torchmf.py: the interaction store (Interactions), the        *)
(* pointwise and pairwise prediction modules (BaseModule, BPRModule) and   *)
(* the training pipeline (BasePipeline).                                   *)
(*                                                                         *)
(* Numbers.  Parameters, ratings and losses are integers; a recorded epoch *)
(* loss is the pair <<sum of batch losses, number of entries>> standing    *)
(* for the quotient the code computes.  dropout_p is counted in halves     *)
(* (0 is p = 0, 1 is p = 1/2, where the surviving elements are scaled by   *)
(* 1/(1-p) = 2).                                                           *)
(*                                                                         *)
(* Randomness.  torch's process-wide generator is the field rng of a run.  *)
(* Its value when the process starts is arbitrary; torch.manual_seed sets  *)
(* it from the seed.  Every random draw of the program (parameter          *)
(* initialisation, the loaders' shuffles, dropout masks) is a function of  *)
(* the generator's state and advances it.                                  *)
(*                                                                         *)
(* Runs.  Two runs of the same program on the same inputs (cfg) are        *)
(* modelled side by side, each in a process of its own; they differ only   *)
(* in the state of the generator when the process starts.                  *)
(***************************************************************************)
EXTENDS Integers, Sequences, FiniteSets, TLC

VARIABLES cfg, runs, bpr

vars == <<cfg, runs, bpr>>

Runs == {1, 2}

None == "None"

-----------------------------------------------------------------------------
(* Bounds of the model                                                     *)

\* n_epochs is drawn from -1 .. MaxEpochs
MaxEpochs == 2

\* the generator of a fresh process starts in a state of 0 .. MaxEntropy
MaxEntropy == 1

-----------------------------------------------------------------------------
(* The sparse matrices handed to the pipeline, in coordinate form.  A      *)
(* matrix has a shape <<n_users, n_items>> and nnz entries; its i-th entry  *)
(* (i in 0 .. nnz-1) is fixed by the three operators below.  tocoo() keeps *)
(* duplicate coordinates, so nnz may exceed n_users * n_items.             *)

CooRow(m, i) == i % m.shape[1]

CooCol(m, i) == (i \div m.shape[1]) % m.shape[2]

CooData(m, i) == 1 + (i % 3)

\* batch_size=1024 of both DataLoaders
LoaderBatchSize == 1024

Matrix(n_users, n_items, nnz) ==
    [is_none |-> FALSE, shape |-> <<n_users, n_items>>, nnz |-> nnz]

\* test_data=None
NoMatrix == [is_none |-> TRUE, shape |-> <<0, 0>>, nnz |-> 0]

\* random_seed=None
NoSeed == -1

SmallTrain == { Matrix(2, 2, 3) }

LargeTrain == { Matrix(2, 2, LoaderBatchSize + 1) }

\* same shape as the train split, a larger shape, a smaller shape
SmallTest == { Matrix(2, 2, 2), Matrix(3, 2, 3), Matrix(1, 2, 2) }

LargeTest == { Matrix(2, 2, LoaderBatchSize + 1) }

Models == {"BaseModule", "BPRModule"}

\* The arguments of BasePipeline(...): every combination over the small
\* matrices, and the matrices of more than one batch with fewer of the others
Configs ==
    [ train_data  : SmallTrain,
      test_data   : SmallTest \cup {NoMatrix},
      model       : Models,
      n_factors   : {1, 2},
      batch_size  : {2, 32},
      dropout_p   : {0, 1},
      n_epochs    : -1..MaxEpochs,
      random_seed : {NoSeed, 1} ]
    \cup
    { [ train_data  |-> d[1],
        test_data   |-> d[2],
        model       |-> "BaseModule",
        n_factors   |-> 1,
        batch_size  |-> b,
        dropout_p   |-> p,
        n_epochs    |-> n,
        random_seed |-> 1 ] :
      d \in (LargeTrain \X {Matrix(2, 2, 2)}) \cup (SmallTrain \X LargeTest),
      b \in {2, 32}, p \in {0, 1}, n \in 1..MaxEpochs }

-----------------------------------------------------------------------------
(* torch's global random number generator                                  *)

RngStates == 0..7

RngNext(s) == (5 * s + 3) % 8

RECURSIVE RngAdvance(_, _)
RngAdvance(s, k) == IF k = 0 THEN s ELSE RngAdvance(RngNext(s), k - 1)

\* torch.manual_seed(seed)
ManualSeed(seed) == seed % 8

\* one element of nn.Embedding's random initial weights
InitWeight(s) == (s % 3) - 1

-----------------------------------------------------------------------------
(* BaseModule: the parameters and the forward pass                         *)

\* The weights are drawn in the order the embeddings are created.
ParamCount(n_users, n_items, n_factors) ==
    n_users + n_items + n_users * n_factors + n_items * n_factors

\* BaseModule.__init__: four embeddings with random initial weights, drawn
\* from the global generator in state s.  A freshly built nn.Module is in
\* training mode.
BaseModuleInit(n_users, n_items, n_factors, dropout_p, s) ==
    LET W(k) == InitWeight(RngAdvance(s, k))
    IN  [ n_users         |-> n_users,
          n_items         |-> n_items,
          n_factors       |-> n_factors,
          dropout_p       |-> dropout_p,
          training        |-> TRUE,
          user_biases     |-> [u \in 0..(n_users - 1) |-> W(u)],
          item_biases     |-> [i \in 0..(n_items - 1) |-> W(n_users + i)],
          user_embeddings |-> [u \in 0..(n_users - 1) |-> [f \in 1..n_factors |->
                                 W(n_users + n_items + u * n_factors + (f - 1))]],
          item_embeddings |-> [i \in 0..(n_items - 1) |-> [f \in 1..n_factors |->
                                 W(n_users + n_items + n_users * n_factors
                                   + i * n_factors + (f - 1))]] ]

\* nn.Dropout draws a mask from the generator only in training mode with p > 0
DropoutActive(m) == m.training /\ m.dropout_p > 0

\* the mask bit of element (j, f) of a batch, drawn with the generator in state s
Keep(s, j, f) == (s + j + f) % 2 = 0

\* nn.Dropout on element (j, f): identity when inactive, else zero or rescale
Dropout(m, s, j, f, x) ==
    IF DropoutActive(m) THEN (IF Keep(s, j, f) THEN 2 * x ELSE 0) ELSE x

\* the generator after one forward pass (two dropout calls)
RngAfterForward(m, s) == IF DropoutActive(m) THEN RngAdvance(s, 2) ELSE s

\* nn.Embedding raises on an index outside its table
InRange(m, users, items) ==
    \A j \in 1..Len(users) :
        /\ users[j] \in 0..(m.n_users - 1)
        /\ items[j] \in 0..(m.n_items - 1)

\* (dropout(ues) * dropout(uis)) for element j, factor f
FactorTerm(m, s, j, f, u, i) ==
    Dropout(m, s, j, f, m.user_embeddings[u][f])
        * Dropout(m, RngNext(s), j, f, m.item_embeddings[i][f])

RECURSIVE SumFactors(_, _, _, _, _, _)
SumFactors(m, s, j, f, u, i) ==
    IF f = 0 THEN 0
    ELSE FactorTerm(m, s, j, f, u, i) + SumFactors(m, s, j, f - 1, u, i)

\* BaseModule.forward
BaseForward(m, s, users, items) ==
    [j \in 1..Len(users) |->
        m.user_biases[users[j]] + m.item_biases[items[j]]
            + SumFactors(m, s, j, m.n_factors, users[j], items[j])]

\* sum of fn[lo..hi], by halving
RECURSIVE SumRange(_, _, _)
SumRange(fn, lo, hi) ==
    IF lo > hi THEN 0
    ELSE IF lo = hi THEN fn[lo]
    ELSE LET mid == (lo + hi) \div 2
         IN  SumRange(fn, lo, mid) + SumRange(fn, mid + 1, hi)

\* nn.MSELoss(size_average=False): the sum of the squared errors
MSELoss(preds, val) ==
    SumRange([j \in 1..Len(preds) |-> (preds[j] - val[j]) * (preds[j] - val[j])],
             1, Len(preds))

Sgn(x) == IF x > 0 THEN 1 ELSE IF x < 0 THEN -1 ELSE 0

\* loss.backward() for the summed squared error of a batch: the gradient of
\* the loss in every parameter, with the masks of the forward pass (drawn
\* with the generator in state s)
Backward(m, s, users, items, preds, val) ==
    LET B == Len(users)
        E(j) == 2 * (preds[j] - val[j])
        GU(u) == SumRange([j \in 1..B |-> IF users[j] = u THEN E(j) ELSE 0], 1, B)
        GI(i) == SumRange([j \in 1..B |-> IF items[j] = i THEN E(j) ELSE 0], 1, B)
        GUF(u, f) == SumRange([j \in 1..B |->
                        IF users[j] = u
                        THEN E(j) * Dropout(m, s, j, f, 1)
                                  * Dropout(m, RngNext(s), j, f,
                                            m.item_embeddings[items[j]][f])
                        ELSE 0], 1, B)
        GIF(i, f) == SumRange([j \in 1..B |->
                        IF items[j] = i
                        THEN E(j) * Dropout(m, RngNext(s), j, f, 1)
                                  * Dropout(m, s, j, f,
                                            m.user_embeddings[users[j]][f])
                        ELSE 0], 1, B)
    IN  [ user_biases     |-> [u \in DOMAIN m.user_biases |-> GU(u)],
          item_biases     |-> [i \in DOMAIN m.item_biases |-> GI(i)],
          user_embeddings |-> [u \in DOMAIN m.user_embeddings |->
                                 [f \in 1..m.n_factors |-> GUF(u, f)]],
          item_embeddings |-> [i \in DOMAIN m.item_embeddings |->
                                 [f \in 1..m.n_factors |-> GIF(i, f)]] ]

\* optimizer.step(): the optimizer is an argument of the pipeline; here every
\* parameter moves one unit against the sign of its gradient
OptimizerStep(m, g) ==
    [ m EXCEPT
        !.user_biases     = [u \in DOMAIN @ |-> @[u] - Sgn(g.user_biases[u])],
        !.item_biases     = [i \in DOMAIN @ |-> @[i] - Sgn(g.item_biases[i])],
        !.user_embeddings = [u \in DOMAIN @ |-> [f \in 1..m.n_factors |->
                                @[u][f] - Sgn(g.user_embeddings[u][f])]],
        !.item_embeddings = [i \in DOMAIN @ |-> [f \in 1..m.n_factors |->
                                @[i][f] - Sgn(g.item_embeddings[i][f])]] ]

\* the parameters of a module
Parameters(m) ==
    <<m.user_biases, m.item_biases, m.user_embeddings, m.item_embeddings>>

-----------------------------------------------------------------------------
(* Interactions and the DataLoader over it                                 *)

\* Interactions.__init__ calls test_data.tocoo() whatever test_data is
InteractionsRaises(train_data, test_data) == test_data.is_none

\* Interactions.__init__: the store takes n_users and n_items from train_data
Interactions(train_data, test_data, train) ==
    [ train     |-> train,
      n_users   |-> train_data.shape[1],
      n_items   |-> train_data.shape[2],
      train_nnz |-> train_data.nnz,
      test_nnz  |-> test_data.nnz ]

\* Interactions.__len__
StoreLen(store) == IF store.train THEN store.train_nnz ELSE store.test_nnz

\* Interactions.__getitem__: ((row, col), val) of entry index
GetItem(c, store, index) ==
    LET mat == IF store.train THEN c.train_data ELSE c.test_data
    IN  [row |-> CooRow(mat, index), col |-> CooCol(mat, index),
         val |-> CooData(mat, index)]

\* a loader built with batch_size=self.batch_size
BatchSizeFromConfig(c) == c.batch_size

\* the number of entries a loader puts in one batch
BatchSizeOf(c) == LoaderBatchSize

\* DataLoader(shuffle=True): the order of an epoch is drawn from the
\* generator when iteration starts; entry order[k] is the k-th one served
ShuffleOffset(s, n) == s % n

\* the indices of the batch that starts at position pos of the epoch's order
LoaderBatch(c, n, offset, pos) ==
    LET size == IF n - pos < BatchSizeOf(c) THEN n - pos ELSE BatchSizeOf(c)
    IN  [j \in 1..size |-> (offset + pos + j - 1) % n]

-----------------------------------------------------------------------------
(* BasePipeline                                                            *)

\* collections.defaultdict(list): a key exists once it has been used
DictLen(d, k) == IF k \in DOMAIN d THEN Len(d[k]) ELSE 0

\* the list under k replaced by a new one-element list
DictAssign(d, k, x) == [j \in (DOMAIN d) \cup {k} |-> IF j = k THEN <<x>> ELSE d[j]]

DictAppend(d, k, x) ==
    [j \in (DOMAIN d) \cup {k} |->
        IF j = k THEN Append(IF k \in DOMAIN d THEN d[k] ELSE <<>>, x) ELSE d[j]]

EmptyDict == [k \in {} |-> <<>>]

\* A process before BasePipeline(...) is called, its generator in state s
NewRun(s) ==
    [ pc           |-> "new",
      err          |-> None,
      rng          |-> s,
      model        |-> None,
      opt_steps    |-> 0,
      losses       |-> EmptyDict,
      epoch        |-> 0,
      total_loss   |-> 0,
      offset       |-> 0,
      pos          |-> 0,
      batches      |-> <<>>,
      batch_losses |-> <<>>,
      fwd          |-> [phase |-> "none", training |-> FALSE] ]

Fail(run, e) == [run EXCEPT !.pc = "failed", !.err = e]

\* the generator when BasePipeline.__init__ returns
SeedAtEnd(c, s) ==
    IF c.random_seed # NoSeed THEN ManualSeed(c.random_seed) ELSE s

\* BasePipeline.__init__
PipelineInit(c, run) ==
    IF InteractionsRaises(c.train_data, c.test_data)
    THEN Fail(run, "AttributeError")
    ELSE IF c.model = "BPRModule"
    THEN \* BPRModule.__init__ takes no loss_function
         Fail(run, "TypeError")
    ELSE LET n_users == c.train_data.shape[1]
             n_items == c.train_data.shape[2]
             m == BaseModuleInit(n_users, n_items, c.n_factors, c.dropout_p, run.rng)
             s == RngAdvance(run.rng, ParamCount(n_users, n_items, c.n_factors))
         IN  [run EXCEPT !.pc = "constructed",
                         !.model = m,
                         !.rng = SeedAtEnd(c, s)]

TrainStore(c) == Interactions(c.train_data, c.test_data, TRUE)

TestStore(c) == Interactions(c.train_data, c.test_data, FALSE)

\* the (row, col, val) columns a loader collates for the batch of indices idx
BatchRows(c, store, idx) == [j \in 1..Len(idx) |-> GetItem(c, store, idx[j]).row]

BatchCols(c, store, idx) == [j \in 1..Len(idx) |-> GetItem(c, store, idx[j]).col]

BatchVals(c, store, idx) == [j \in 1..Len(idx) |-> GetItem(c, store, idx[j]).val]

\* iter(loader): the sampler draws the epoch's order
StartIteration(run, store) ==
    [run EXCEPT !.offset = ShuffleOffset(run.rng, StoreLen(store)),
                !.rng = RngNext(run.rng),
                !.pos = 0,
                !.batches = <<>>,
                !.batch_losses = <<>>]

\* fit(): the call, up to the head of the loop over range(n_epochs)
FitCall(c, run) == [run EXCEPT !.pc = "loop", !.epoch = 0]

\* model.train() of _fit_epoch
TrainMode(m) == [m EXCEPT !.training = TRUE]

\* model.eval() of _validation_loss
EvalMode(m) == [m EXCEPT !.training = FALSE]

\* _fit_epoch, up to the first batch
FitEpochBegin(c, run) ==
    StartIteration([run EXCEPT !.pc = "train",
                               !.model = TrainMode(run.model),
                               !.total_loss = 0],
                   TrainStore(c))

\* the parameters after the body of _fit_epoch's loop has handled one batch
TrainedModel(m, s, row, col, val, preds) ==
    OptimizerStep(m, Backward(m, s, row, col, preds, val))

\* _fit_epoch: one batch of the loop
FitBatch(c, run) ==
    LET store == TrainStore(c)
        idx   == LoaderBatch(c, StoreLen(store), run.offset, run.pos)
        row   == BatchRows(c, store, idx)
        col   == BatchCols(c, store, idx)
        val   == BatchVals(c, store, idx)
        preds == BaseForward(run.model, run.rng, row, col)
        loss  == MSELoss(preds, val)
    IN  [run EXCEPT !.model = TrainedModel(run.model, run.rng, row, col, val, preds),
                    !.opt_steps = @ + 1,
                    !.rng = RngAfterForward(run.model, run.rng),
                    !.total_loss = @ + loss,
                    !.pos = @ + Len(idx),
                    !.batches = Append(@, idx),
                    !.batch_losses = Append(@, loss),
                    !.fwd = [phase |-> "train", training |-> run.model.training]]

\* the value _fit_epoch returns: total_loss / len(train_interactions)
FitEpochResult(c, run) == <<run.total_loss, StoreLen(TrainStore(c))>>

\* fit(): losses['train'].append(self._fit_epoch())
FitEpochEnd(c, run) ==
    [run EXCEPT !.pc = "trained",
                !.losses = DictAppend(@, "train", FitEpochResult(c, run))]

\* _validation_loss, up to the first batch.  fit() calls it when
\* self.test_interactions is not None, which holds of every pipeline that
\* __init__ returned.
ValidationBegin(c, run) ==
    StartIteration([run EXCEPT !.pc = "validate",
                               !.model = EvalMode(run.model),
                               !.total_loss = 0],
                   TestStore(c))

\* a validation batch that also runs backward() and the optimizer
ValidationTrainsModel(m, s, row, col, val, preds) ==
    TrainedModel(m, s, row, col, val, preds)

\* the parameters after the body of _validation_loss's loop has handled one batch
ValidatedModel(m, s, row, col, val, preds) == m

\* _validation_loss: one batch of the loop
ValidationBatch(c, run) ==
    LET store == TestStore(c)
        idx   == LoaderBatch(c, StoreLen(store), run.offset, run.pos)
        row   == BatchRows(c, store, idx)
        col   == BatchCols(c, store, idx)
        val   == BatchVals(c, store, idx)
        preds == BaseForward(run.model, run.rng, row, col)
        loss  == MSELoss(preds, val)
    IN  IF ~InRange(run.model, row, col)
        THEN Fail(run, "IndexError")
        ELSE [run EXCEPT !.model = ValidatedModel(run.model, run.rng, row, col, val, preds),
                         !.rng = RngAfterForward(run.model, run.rng),
                         !.total_loss = @ + loss,
                         !.pos = @ + Len(idx),
                         !.batches = Append(@, idx),
                         !.batch_losses = Append(@, loss),
                         !.fwd = [phase |-> "validation",
                                  training |-> run.model.training]]

\* the value _validation_loss returns: total_loss / len(test_interactions)
ValidationResult(c, run) == <<run.total_loss, StoreLen(TestStore(c))>>

\* fit(): the rest of the loop body after _validation_loss returns
ValidationEnd(c, run) ==
    [run EXCEPT !.pc = "loop",
                !.losses = DictAppend(DictAppend(@, "test", ValidationResult(c, run)),
                                      "epoch", run.epoch),
                !.epoch = @ + 1]

\* fit() returns when range(n_epochs) is exhausted
FitReturn(c, run) == [run EXCEPT !.pc = "done"]

-----------------------------------------------------------------------------
(* The two runs, advancing together.  The runs are separate processes on   *)
(* the same arguments; their control flow depends on the arguments alone,  *)
(* so both are always at the same statement and one action steps both.     *)

At(p) == \A r \in Runs : runs[r].pc = p

Construct ==
    /\ At("new")
    /\ runs' = [r \in Runs |-> PipelineInit(cfg, runs[r])]
    /\ UNCHANGED <<cfg, bpr>>

Fit ==
    /\ At("constructed")
    /\ runs' = [r \in Runs |-> FitCall(cfg, runs[r])]
    /\ UNCHANGED <<cfg, bpr>>

EpochStart ==
    /\ At("loop")
    /\ \A r \in Runs : runs[r].epoch < cfg.n_epochs
    /\ runs' = [r \in Runs |-> FitEpochBegin(cfg, runs[r])]
    /\ UNCHANGED <<cfg, bpr>>

TrainBatch ==
    /\ At("train")
    /\ \A r \in Runs : runs[r].pos < StoreLen(TrainStore(cfg))
    /\ runs' = [r \in Runs |-> FitBatch(cfg, runs[r])]
    /\ UNCHANGED <<cfg, bpr>>

TrainDone ==
    /\ At("train")
    /\ \A r \in Runs : runs[r].pos >= StoreLen(TrainStore(cfg))
    /\ runs' = [r \in Runs |-> FitEpochEnd(cfg, runs[r])]
    /\ UNCHANGED <<cfg, bpr>>

ValidationStart ==
    /\ At("trained")
    /\ runs' = [r \in Runs |-> ValidationBegin(cfg, runs[r])]
    /\ UNCHANGED <<cfg, bpr>>

ValidateBatch ==
    /\ At("validate")
    /\ \A r \in Runs : runs[r].pos < StoreLen(TestStore(cfg))
    /\ runs' = [r \in Runs |-> ValidationBatch(cfg, runs[r])]
    /\ UNCHANGED <<cfg, bpr>>

ValidationDone ==
    /\ At("validate")
    /\ \A r \in Runs : runs[r].pos >= StoreLen(TestStore(cfg))
    /\ runs' = [r \in Runs |-> ValidationEnd(cfg, runs[r])]
    /\ UNCHANGED <<cfg, bpr>>

FitDone ==
    /\ At("loop")
    /\ \A r \in Runs : runs[r].epoch >= cfg.n_epochs
    /\ runs' = [r \in Runs |-> FitReturn(cfg, runs[r])]
    /\ UNCHANGED <<cfg, bpr>>

Init ==
    /\ cfg \in Configs
    /\ runs \in [Runs -> {NewRun(s) : s \in 0..MaxEntropy}]
    /\ bpr = <<>>

Next ==
    \/ Construct
    \/ Fit
    \/ EpochStart
    \/ TrainBatch
    \/ TrainDone
    \/ ValidationStart
    \/ ValidateBatch
    \/ ValidationDone
    \/ FitDone

Spec == Init /\ [][Next]_vars

-----------------------------------------------------------------------------
(* BPRModule used on its own: built by BPRModule(n_users, n_items,         *)
(* n_factors, dropout_p), its weights set by the caller, and called on     *)
(* batches of (user, positive item, negative item) triples.                *)

\* weights are drawn from 0 .. MaxWeight
MaxWeight == 1

Weights == 0..MaxWeight

\* BPRModule.__init__ passes its arguments on to BaseModule.__init__; the
\* weights are then any values of the range
BPRModules ==
    { [ n_users         |-> 2,
        n_items         |-> 2,
        n_factors       |-> 1,
        dropout_p       |-> p,
        training        |-> TRUE,
        user_biases     |-> ub,
        item_biases     |-> ib,
        user_embeddings |-> [u \in 0..1 |-> <<ue[u]>>],
        item_embeddings |-> [i \in 0..1 |-> <<ie[i]>>] ] :
      p \in {0, 1},
      ub \in [0..1 -> Weights], ib \in [0..1 -> Weights],
      ue \in [0..1 -> Weights], ie \in [0..1 -> Weights] }

\* (dropout(ues) * dropout(uis)) for element j, factor f, where uis is the
\* difference of the item embeddings
BPRFactorTerm(m, s, j, f, u, pos, neg) ==
    Dropout(m, s, j, f, m.user_embeddings[u][f])
        * Dropout(m, RngNext(s), j, f,
                  m.item_embeddings[pos][f] - m.item_embeddings[neg][f])

RECURSIVE BPRSumFactors(_, _, _, _, _, _, _)
BPRSumFactors(m, s, j, f, u, pos, neg) ==
    IF f = 0 THEN 0
    ELSE BPRFactorTerm(m, s, j, f, u, pos, neg)
            + BPRSumFactors(m, s, j, f - 1, u, pos, neg)

\* BPRModule.forward
BPRForward(m, s, users, pos_items, neg_items) ==
    [j \in 1..Len(users) |->
        BPRSumFactors(m, s, j, m.n_factors, users[j], pos_items[j], neg_items[j])
            + m.user_biases[users[j]]
            + (m.item_biases[pos_items[j]] - m.item_biases[neg_items[j]])]

\* the batches the module is called on: a triple, or a triple and its swap
BPRTriples == (0..1) \X (0..1) \X (0..1)

BPRBatches ==
    { <<t>> : t \in BPRTriples } \cup { <<t, <<t[1], t[3], t[2]>> >> : t \in BPRTriples }

BPRTrain ==
    /\ bpr.model.training = FALSE
    /\ bpr' = [bpr EXCEPT !.model = TrainMode(@)]
    /\ UNCHANGED <<cfg, runs>>

BPREval ==
    /\ bpr.model.training = TRUE
    /\ bpr' = [bpr EXCEPT !.model = EvalMode(@)]
    /\ UNCHANGED <<cfg, runs>>

\* model(users, pos_items, neg_items), the generator being in state s
BPRCall ==
    /\ \E batch \in BPRBatches, s \in 0..MaxEntropy :
          LET users == [j \in 1..Len(batch) |-> batch[j][1]]
              pos   == [j \in 1..Len(batch) |-> batch[j][2]]
              neg   == [j \in 1..Len(batch) |-> batch[j][3]]
          IN  bpr' = [bpr EXCEPT !.users = users,
                                 !.pos_items = pos,
                                 !.neg_items = neg,
                                 !.masked = DropoutActive(bpr.model),
                                 !.preds = BPRForward(bpr.model, s, users, pos, neg)]
    /\ UNCHANGED <<cfg, runs>>

InitBPR ==
    /\ cfg = [model |-> "BPRModule"]
    /\ runs = <<>>
    /\ bpr \in { [model |-> m, users |-> <<>>, pos_items |-> <<>>,
                  neg_items |-> <<>>, masked |-> FALSE, preds |-> <<>>] :
                 m \in BPRModules }

NextBPR ==
    \/ BPRTrain
    \/ BPREval
    \/ BPRCall

SpecBPR == InitBPR /\ [][NextBPR]_vars

-----------------------------------------------------------------------------
(* Properties                                                              *)

LossKeys == {"train", "test", "epoch"}

IsPrefix(a, b) == Len(a) <= Len(b) /\ \A i \in 1..Len(a) : a[i] = b[i]

CeilDiv(n, b) == (n + b - 1) \div b

\* entered only by pipelines that were built with a train and a test split
Fitting(run) == run.pc \in {"loop", "train", "trained", "validate", "done"}

C1_Lengths ==
    \A r \in Runs :
        LET run == runs[r]
        IN  (cfg.n_epochs >= 1 /\ ~cfg.test_data.is_none /\ Fitting(run)) =>
               /\ run.pc = "loop" =>
                     \A k \in LossKeys : DictLen(run.losses, k) = run.epoch
               /\ run.pc = "done" =>
                     /\ \A k \in LossKeys : DictLen(run.losses, k) = cfg.n_epochs
                     /\ run.losses["epoch"] = [i \in 1..cfg.n_epochs |-> i - 1]

C1_AppendOnly ==
    \A r \in Runs :
        \A k \in DOMAIN runs[r].losses :
            /\ k \in DOMAIN runs'[r].losses
            /\ IsPrefix(runs[r].losses[k], runs'[r].losses[k])
            /\ Len(runs'[r].losses[k]) <= Len(runs[r].losses[k]) + 1

\* C1: with a train and a test split and n_epochs = N >= 1, the loss history
\* only grows, one entry per completed epoch per key: at the head of fit()'s
\* loop after k completed epochs each of losses['train'], losses['test'] and
\* losses['epoch'] has k entries; when fit() has returned each has N entries
\* and losses['epoch'] is 0, 1, ..., N-1.
C1_LossHistory == [](C1_Lengths) /\ [][C1_AppendOnly]_vars

C1_Witness ==
    \E r \in Runs :
        /\ runs[r].pc = "done"
        /\ cfg.n_epochs = 2
        /\ ~cfg.test_data.is_none
        /\ Len(runs[r].losses["train"]) = 2
        /\ runs[r].losses["epoch"] = <<0, 1>>

\* C2: a pipeline given a train split and no test split is built without
\* error, never runs a validation pass, and when fit() has returned
\* losses['train'] has n_epochs entries and losses has no key 'test'.
C2_TestSplitOptional ==
    \A r \in Runs :
        (cfg.test_data.is_none /\ cfg.model = "BaseModule") =>
            /\ runs[r].pc # "failed"
            /\ runs[r].pc # "validate"
            /\ runs[r].pc = "done" =>
                  /\ DictLen(runs[r].losses, "train") = cfg.n_epochs
                  /\ "test" \notin DOMAIN runs[r].losses

\* C3: two pipelines built with the same random_seed, data and
\* hyperparameters have the same parameters and the same losses['train'] at
\* every point of construction and fit().
C3_SeededRunsAgree ==
    (cfg.random_seed # NoSeed /\ \A r \in Runs : runs[r].pc \notin {"new", "failed"}) =>
        /\ Parameters(runs[1].model) = Parameters(runs[2].model)
        /\ DictLen(runs[1].losses, "train") = DictLen(runs[2].losses, "train")
        /\ "train" \in DOMAIN runs[1].losses =>
              runs[1].losses["train"] = runs[2].losses["train"]

\* C5: a pipeline given the pairwise (BPR) model variant and both splits is
\* built without error, its model sized from the store, and its fit() is not
\* aborted.
C5_PairwiseVariantSupported ==
    \A r \in Runs :
        (cfg.model = "BPRModule" /\ ~cfg.test_data.is_none /\ runs[r].pc # "new") =>
            /\ runs[r].pc # "failed"
            /\ runs[r].model.n_users = cfg.train_data.shape[1]
            /\ runs[r].model.n_items = cfg.train_data.shape[2]

\* C6: building a pipeline from a train and a test split of different shapes
\* fails with a ShapeError and returns no pipeline.
C6_ShapeMismatchRejected ==
    \A r \in Runs :
        ( /\ cfg.model = "BaseModule"
          /\ ~cfg.test_data.is_none
          /\ cfg.test_data.shape # cfg.train_data.shape
          /\ runs[r].pc # "new" ) =>
            runs[r].pc = "failed" /\ runs[r].err = "ShapeError"

\* C7: building a pipeline with n_epochs <= 0 fails with a
\* ConfigurationError, so fit() never returns with an empty loss history.
C7_InvalidConfigRejected ==
    \A r \in Runs :
        /\ ( /\ cfg.model = "BaseModule"
             /\ ~cfg.test_data.is_none
             /\ cfg.n_epochs <= 0
             /\ runs[r].pc # "new" ) =>
               runs[r].pc = "failed" /\ runs[r].err = "ConfigurationError"
        /\ runs[r].pc = "done" => DictLen(runs[r].losses, "train") > 0

\* C4: with dropout inactive, the pairwise score of (u, neg, pos) is the
\* negation of the score of (u, pos, neg), whatever the weights: in a call on
\* a triple and its swap the second prediction is minus the first.
C4_Antisymmetry ==
    (Len(bpr.preds) = 2 /\ ~bpr.masked) => bpr.preds[2] = -bpr.preds[1]

\* What the code computes instead: the two scores of a swapped pair add up to
\* twice the user's bias.
BPRSwapSum ==
    (Len(bpr.preds) = 2 /\ ~bpr.masked) =>
        bpr.preds[1] + bpr.preds[2] = 2 * bpr.model.user_biases[bpr.users[1]]

\* the steps of a validation pass
InValidation(run) == run.pc \in {"trained", "validate"}

C8_ParametersKept ==
    \A r \in Runs :
        InValidation(runs[r]) =>
            Parameters(runs'[r].model) = Parameters(runs[r].model)

C8_OnlyOptimizerWrites ==
    \A r \in Runs :
        (runs[r].pc # "new"
            /\ Parameters(runs'[r].model) # Parameters(runs[r].model)) =>
                /\ runs[r].pc = "train"
                /\ runs'[r].opt_steps = runs[r].opt_steps + 1

\* inside _validation_loss (the steps from its start to its last batch) the
\* pipeline and the model keep everything but the accumulated loss and the
\* mode flag; the position of the loader's iteration, which includes the
\* generator its shuffle draws from, is the loader's
C8_Frame ==
    \A r \in Runs :
        (InValidation(runs[r]) /\ runs'[r].pc = "validate") =>
            /\ runs'[r].model = [runs[r].model EXCEPT !.training = runs'[r].model.training]
            /\ runs'[r].opt_steps = runs[r].opt_steps
            /\ runs'[r].losses = runs[r].losses
            /\ runs'[r].epoch = runs[r].epoch
            /\ runs'[r].err = runs[r].err

RECURSIVE SumSeq(_)
SumSeq(q) == IF q = <<>> THEN 0 ELSE q[1] + SumSeq(Tail(q))

Served(run) == UNION { { run.batches[b][j] : j \in 1..Len(run.batches[b]) } :
                       b \in 1..Len(run.batches) }

\* C9: in every training epoch the train split is served in batches of at
\* most 1024 entries whatever batch_size was passed: every entry is in
\* exactly one batch, one optimizer step is taken per batch, ceil(nnz / 1024)
\* per epoch, and the recorded train loss is the sum of the batch losses over
\* nnz(train).
C9_TrainEpoch ==
    \A r \in Runs :
        LET run == runs[r]
            n   == cfg.train_data.nnz
        IN  /\ run.pc \in {"train", "trained"} =>
                 /\ \A b \in 1..Len(run.batches) : Len(run.batches[b]) <= 1024
                 /\ run.opt_steps = run.epoch * CeilDiv(n, 1024) + Len(run.batches)
            /\ run.pc = "trained" =>
                 /\ Len(run.batches) = CeilDiv(n, 1024)
                 /\ SumSeq([b \in 1..Len(run.batches) |-> Len(run.batches[b])]) = n
                 /\ Served(run) = 0..(n - 1)
                 /\ run.opt_steps = (run.epoch + 1) * CeilDiv(n, 1024)
                 /\ run.losses["train"][run.epoch + 1] = <<SumSeq(run.batch_losses), n>>

C9_Witness ==
    \E r \in Runs :
        /\ runs[r].pc = "trained"
        /\ runs[r].epoch = 1
        /\ cfg.train_data.nnz = 1025
        /\ cfg.batch_size = 32
        /\ Len(runs[r].batches) = 2
        /\ Len(runs[r].batches[1]) = 1024
        /\ runs[r].opt_steps = 4

\* C10: every forward pass of a training batch runs in training mode, every
\* forward pass of a validation batch in evaluation mode, and when fit() has
\* returned the model is in evaluation mode.
C10_ModeMatchesPhase ==
    \A r \in Runs :
        /\ runs[r].fwd.phase = "train" => runs[r].fwd.training
        /\ runs[r].fwd.phase = "validation" => ~runs[r].fwd.training
        /\ runs[r].pc = "done" => ~runs[r].model.training

\* The part of C10 that does not depend on n_epochs: the mode of every
\* forward pass, and of the model after a fit() of at least one epoch.
ModeMatchesPhaseInEpochs ==
    \A r \in Runs :
        /\ runs[r].fwd.phase = "train" => runs[r].fwd.training
        /\ runs[r].fwd.phase = "validation" => ~runs[r].fwd.training
        /\ (runs[r].pc = "done" /\ cfg.n_epochs >= 1) => ~runs[r].model.training

====
